---------------------------- MODULE Spec2Model ----------------------------
(***************************************************************************)
(* A model of the VCD waveform engine of vcd-viewer:                       *)
(*   - src/src/utils/vcdParser.ts : parseTimescale, parseVCD/processChunk  *)
(*   - src/src/components/WaveformViewer.tsx : the zoom, scroll and        *)
(*     pointer handlers                                                    *)
(*   - src/unnamed/part_004 : the zoom buttons of the viewer's other       *)
(*     version                                                             *)
(*   - src/src/App.tsx : the upload handler and what the App shows         *)
(* Strings are sequences of one-character strings, so that trim, split,    *)
(* startsWith, the regular expressions and parseInt are computed as the    *)
(* JavaScript code computes them.                                          *)
(***************************************************************************)
EXTENDS Integers, Sequences, FiniteSets, TLC

(***************************************************************************)
(* Bounds of the model.                                                    *)
(***************************************************************************)
\* lines per chunk; vcdParser.ts:35 uses 10000, scaled down so that a text
\* of a few lines spans several chunks
ChunkSize == 2
\* longest text, in lines, drawn from the whole line pool
MaxFree == 2
\* longest run of value-change lines after a well-formed header
MaxBody == 3
\* parses that may be in flight together
MaxParses == 2

(***************************************************************************)
(* JavaScript values.                                                      *)
(***************************************************************************)
\* the number NaN (parseInt of a string with no leading digits)
NaN == -999999999
\* the value undefined; never equal to a string, whose elements are
\* single characters
Undefined == <<"undefined">>

IsNaN(n) == n = NaN

\* Math.max(a, b): NaN when either argument is NaN
MathMax(a, b) == IF IsNaN(a) \/ IsNaN(b) THEN NaN ELSE IF a > b THEN a ELSE b

\* Math.min(a, b)
MathMin(a, b) == IF IsNaN(a) \/ IsNaN(b) THEN NaN ELSE IF a < b THEN a ELSE b

\* a > b on numbers: false when either is NaN
NumGt(a, b) == ~IsNaN(a) /\ ~IsNaN(b) /\ a > b

\* a <= b on numbers: false when either is NaN
NumLe(a, b) == ~IsNaN(a) /\ ~IsNaN(b) /\ a <= b

(***************************************************************************)
(* Strings.                                                                *)
(***************************************************************************)
\* the characters \s matches and trim() removes
WhiteSpace == {" ", "\t", "\r", "\n"}

Digits == <<"0", "1", "2", "3", "4", "5", "6", "7", "8", "9">>

IsDigit(c) == \E d \in 1..10 : Digits[d] = c

DigitVal(c) == (CHOOSE d \in 1..10 : Digits[d] = c) - 1

SetMin(S) == CHOOSE x \in S : \A y \in S : x <= y

SetMax(S) == CHOOSE x \in S : \A y \in S : x >= y

\* String.prototype.trim
Trim(s) ==
  LET keep == {i \in 1..Len(s) : s[i] \notin WhiteSpace}
  IN  IF keep = {} THEN <<>> ELSE SubSeq(s, SetMin(keep), SetMax(keep))

\* String.prototype.startsWith
StartsWith(s, p) == Len(s) >= Len(p) /\ SubSeq(s, 1, Len(p)) = p

\* String.prototype.substring(k), k counted from 0
Substring(s, k) == SubSeq(s, k + 1, Len(s))

\* String.prototype.includes(c) for a one-character search string
Includes(s, c) == \E i \in 1..Len(s) : s[i] = c

\* the k-th smallest element of a set of numbers
Kth(S, k) == CHOOSE p \in S : Cardinality({q \in S : q < p}) = k - 1

\* the pieces of s between its separators: every maximal run of characters
\* of seps (runs = TRUE, the regular expression /\s+/) or every single
\* character of seps (runs = FALSE); one piece more than separators
SplitOn(s, seps, runs) ==
  LET n      == Len(s)
      starts == {i \in 1..n : s[i] \in seps /\ (~runs \/ i = 1 \/ s[i - 1] \notin seps)}
      ends   == {i \in 1..n : s[i] \in seps /\ (~runs \/ i = n \/ s[i + 1] \notin seps)}
      m      == Cardinality(starts)
  IN  [k \in 1..(m + 1) |->
         SubSeq(s, IF k = 1 THEN 1 ELSE Kth(ends, k - 1) + 1,
                   IF k = m + 1 THEN n ELSE Kth(starts, k) - 1)]

\* s.split(/\s+/)
SplitWS(s) == SplitOn(s, WhiteSpace, TRUE)

\* s.split(c) for a one-character separator
SplitChar(s, c) == SplitOn(s, {c}, FALSE)

\* parts[k], k counted from 0: undefined past the end
Part(parts, k) == IF k + 1 <= Len(parts) THEN parts[k + 1] ELSE Undefined

RECURSIVE DigitsValue(_, _)
\* the value of the longest prefix of decimal digits of s, from acc
DigitsValue(s, acc) ==
  IF s = <<>> \/ ~IsDigit(Head(s)) THEN acc
  ELSE DigitsValue(Tail(s), acc * 10 + DigitVal(Head(s)))

\* parseInt(s) for decimal input: leading white space skipped, an optional
\* sign, then the longest prefix of digits; NaN when there is no digit.
\* parseInt(undefined) is parseInt("undefined"), NaN.
ParseInt(s) ==
  LET keep == {i \in 1..Len(s) : s[i] \notin WhiteSpace}
      t    == IF keep = {} THEN <<>> ELSE SubSeq(s, SetMin(keep), Len(s))
      neg  == t # <<>> /\ Head(t) = "-"
      u    == IF t # <<>> /\ Head(t) \in {"-", "+"} THEN Tail(t) ELSE t
  IN  IF u = <<>> \/ ~IsDigit(Head(u)) THEN NaN
      ELSE IF neg THEN 0 - DigitsValue(u, 0) ELSE DigitsValue(u, 0)

\* Number(s) for a string: "" is 0, a decimal integer is its value,
\* anything else NaN; Number(undefined) is NaN
ToNumber(s) ==
  IF s = Undefined THEN NaN
  ELSE LET t   == Trim(s)
           neg == t # <<>> /\ Head(t) = "-"
           u   == IF t # <<>> /\ Head(t) \in {"-", "+"} THEN Tail(t) ELSE t
       IN  IF t = <<>> THEN 0
           ELSE IF u = <<>> \/ \E i \in 1..Len(u) : ~IsDigit(u[i]) THEN NaN
           ELSE IF neg THEN 0 - DigitsValue(u, 0) ELSE DigitsValue(u, 0)

RECURSIVE NatToStr(_)
NatToStr(n) ==
  IF n < 10 THEN <<Digits[n + 1]>>
  ELSE Append(NatToStr(n \div 10), Digits[(n % 10) + 1])

\* `${i}` for an integer i
NumToStr(i) == IF i < 0 THEN <<"-">> \o NatToStr(0 - i) ELSE NatToStr(i)


Letters ==
  {"a", "b", "c", "d", "e", "f", "g", "h", "i", "j", "k", "l", "m",
   "n", "o", "p", "q", "r", "s", "t", "u", "v", "w", "x", "y", "z",
   "A", "B", "C", "D", "E", "F", "G", "H", "I", "J", "K", "L", "M",
   "N", "O", "P", "Q", "R", "S", "T", "U", "V", "W", "X", "Y", "Z"}

\* the characters \w matches
IsWordChar(c) == c \in Letters \/ IsDigit(c) \/ c = "_"

AllWord(s) == \A i \in 1..Len(s) : IsWordChar(s[i])

(***************************************************************************)
(* parseTimescale (vcdParser.ts:14-23).                                    *)
(***************************************************************************)
\* str.trim().match(/^(\d+)\s*(\w+)$/): <<m[1], m[2]>>, or <<>> for no
\* match. \d+ takes the longest run of digits that leaves a non-empty word
\* for \w+, giving one digit back when the run reaches the end of the string.
TimescaleMatch(str) ==
  LET t     == Trim(str)
      nond  == {i \in 1..Len(t) : ~IsDigit(t[i])}
      d     == IF nond = {} THEN Len(t) ELSE SetMin(nond) - 1
      rest  == SubSeq(t, d + 1, Len(t))
      nows  == {i \in 1..Len(rest) : rest[i] \notin WhiteSpace}
      word  == IF nows = {} THEN <<>> ELSE SubSeq(rest, SetMin(nows), Len(rest))
  IN  IF d = 0 THEN <<>>
      ELSE IF word # <<>> /\ AllWord(word) THEN <<SubSeq(t, 1, d), word>>
      ELSE IF rest = <<>> /\ d >= 2 THEN <<SubSeq(t, 1, d - 1), SubSeq(t, d, d)>>
      ELSE <<>>

\* { "1": 0, "10": 1, "100": 2 }[m[1]] || 0
MagnitudeExp(m1) ==
  IF m1 = <<"1", "0">> THEN 1
  ELSE IF m1 = <<"1", "0", "0">> THEN 2
  ELSE 0

\* a value that is no number: the string `${res1}function Object() { ... }`
\* that res1 + res2 is when res2 is a function
NotANumber == -999999998

\* words that name a property every object literal inherits from
\* Object.prototype, whose value is a function
ProtoKeys ==
  {<<"c", "o", "n", "s", "t", "r", "u", "c", "t", "o", "r">>,
   <<"t", "o", "S", "t", "r", "i", "n", "g">>,
   <<"v", "a", "l", "u", "e", "O", "f">>}

\* { s: 0, ms: -3, us: -6, ns: -9, ps: -12, fs: -15 }[m[2]] || 0: the lookup
\* of an inherited key yields its function, which is truthy, so `|| 0` does
\* not replace it
UnitExp(m2) ==
  IF m2 = <<"m", "s">> THEN -3
  ELSE IF m2 = <<"u", "s">> THEN -6
  ELSE IF m2 = <<"n", "s">> THEN -9
  ELSE IF m2 = <<"p", "s">> THEN -12
  ELSE IF m2 = <<"f", "s">> THEN -15
  ELSE IF m2 \in ProtoKeys THEN NotANumber
  ELSE 0

\* res1 + res2: the sum of two numbers, or a string when res2 is a function
parseTimescale(str) ==
  LET m == TimescaleMatch(str)
  IN  IF m = <<>> THEN 0
      ELSE IF UnitExp(m[2]) = NotANumber THEN NotANumber
      ELSE MagnitudeExp(m[1]) + UnitExp(m[2])

(***************************************************************************)
(* The signal table: the object `signals` of parseVCD, as the sequence of  *)
(* its properties in the order Object.values enumerates them.              *)
(***************************************************************************)
\* the property key of an id: signals[undefined] is signals["undefined"]
KeyOf(id) ==
  IF id = Undefined THEN <<"u", "n", "d", "e", "f", "i", "n", "e", "d">> ELSE id

\* an integer-like key ("0", "7", "12"): such keys are enumerated first, in
\* ascending numeric order, before the other keys in insertion order
IsIndexKey(k) ==
  /\ k # <<>>
  /\ \A i \in 1..Len(k) : IsDigit(k[i])
  /\ (Len(k) > 1 => k[1] # "0")

\* if (signals[id]): the id is a key of the table (ids that name a property
\* of Object.prototype, such as "constructor", are not among the inputs)
HasKey(sigs, k) == \E i \in 1..Len(sigs) : sigs[i].key = k

KeyPos(sigs, k) == CHOOSE i \in 1..Len(sigs) : sigs[i].key = k

\* signals[id]
Lookup(sigs, id) == sigs[KeyPos(sigs, KeyOf(id))]

\* where a new key is enumerated
InsertPos(sigs, k) ==
  IF IsIndexKey(k)
  THEN LET after == {i \in 1..Len(sigs) :
                       \/ ~IsIndexKey(sigs[i].key)
                       \/ DigitsValue(sigs[i].key, 0) > DigitsValue(k, 0)}
       IN  IF after = {} THEN Len(sigs) + 1 ELSE SetMin(after)
  ELSE Len(sigs) + 1

\* signals[k] = sig: an existing key keeps its place
SetSignal(sigs, k, sig) ==
  LET e == [key |-> k, name |-> sig.name, width |-> sig.width,
            wave |-> sig.wave, hierarchy |-> sig.hierarchy]
  IN  IF HasKey(sigs, k)
      THEN [sigs EXCEPT ![KeyPos(sigs, k)] = e]
      ELSE LET p == InsertPos(sigs, k)
           IN  SubSeq(sigs, 1, p - 1) \o <<e>> \o SubSeq(sigs, p, Len(sigs))

\* signals[id].wave.push([currentTime, value])
PushWave(sigs, id, time, value) ==
  [sigs EXCEPT ![KeyPos(sigs, KeyOf(id))].wave = Append(@, <<time, value>>)]

(***************************************************************************)
(* One line of processChunk's loop (vcdParser.ts:37-71).                   *)
(***************************************************************************)
kwVar == <<"$", "v", "a", "r">>
kwTimescale == <<"$", "t", "i", "m", "e", "s", "c", "a", "l", "e">>
kwScope == <<"$", "s", "c", "o", "p", "e">>
kwUpscope == <<"$", "u", "p", "s", "c", "o", "p", "e">>

\* line.match(/^[01zx]\S+/i)
IsScalarChange(line) ==
  /\ Len(line) >= 2
  /\ line[1] \in {"0", "1", "z", "x", "Z", "X"}
  /\ line[2] \notin WhiteSpace

\* the value a scalar change pushes: line[0]
ScalarValue(line) == line[1]

\* the value a vector change pushes: the first field after the 'b'
VectorValue(line) == Part(SplitWS(Substring(line, 1)), 0)

\* a bug: parseInt of the line with its '#'
TimeOfWholeLine(line) == ParseInt(line)

\* the time a '#' line sets
TimeOf(line) == ParseInt(Substring(line, 1))

\* the parser state of one parseVCD call before its first line
ParserInit ==
  [signals |-> <<>>, currentTime |-> 0, timescale |-> 0, maxTime |-> 0,
   currentScope |-> <<>>]

\* a bug: shift() in the place of pop(), the outermost scope removed
PopScopeFirst(scope) == IF scope = <<>> THEN <<>> ELSE Tail(scope)

\* currentScope.pop(): the innermost scope removed, nothing on an empty stack
PopScope(scope) == IF scope = <<>> THEN <<>> ELSE SubSeq(scope, 1, Len(scope) - 1)

ProcessLine(st, raw) ==
  LET line == Trim(raw)
  IN  IF StartsWith(line, kwVar)
      THEN LET parts == SplitWS(line)
               id    == Part(parts, 3)
           IN  [st EXCEPT !.signals =
                  SetSignal(@, KeyOf(id),
                            [name |-> Part(parts, 4),
                             width |-> ParseInt(Part(parts, 2)),
                             wave |-> <<>>,
                             hierarchy |-> st.currentScope])]
      ELSE IF StartsWith(line, kwTimescale)
      THEN LET timescaleParts == SplitWS(line)
           IN  IF Len(timescaleParts) > 1
               THEN [st EXCEPT !.timescale = parseTimescale(timescaleParts[2])]
               ELSE st
      ELSE IF StartsWith(line, kwScope)
      THEN [st EXCEPT !.currentScope = Append(@, Part(SplitWS(line), 2))]
      ELSE IF StartsWith(line, kwUpscope)
      THEN [st EXCEPT !.currentScope = PopScope(@)]
      ELSE IF StartsWith(line, <<"#">>)
      THEN [st EXCEPT !.currentTime = TimeOf(line),
                      !.maxTime = MathMax(@, TimeOf(line))]
      ELSE IF IsScalarChange(line)
      THEN LET id == Substring(line, 1)
           IN  IF HasKey(st.signals, KeyOf(id))
               THEN [st EXCEPT !.signals =
                       PushWave(@, id, st.currentTime, <<ScalarValue(line)>>)]
               ELSE st
      ELSE IF StartsWith(line, <<"b">>)
      THEN LET parts == SplitWS(Substring(line, 1))
               id    == Part(parts, 1)
           IN  IF HasKey(st.signals, KeyOf(id))
               THEN [st EXCEPT !.signals =
                       PushWave(@, id, st.currentTime, VectorValue(line))]
               ELSE st
      ELSE st

RECURSIVE ProcessLines(_, _, _, _)
\* the loop for (let i = start; i < end; i++), indices counted from 0
ProcessLines(st, lines, start, end) ==
  IF start >= end THEN st
  ELSE ProcessLines(ProcessLine(st, lines[start + 1]), lines, start + 1, end)

\* const end = Math.min(start + 10000, lines.length)
ChunkEnd(start, n) == IF start + ChunkSize < n THEN start + ChunkSize ELSE n

(***************************************************************************)
(* The end of the last chunk (vcdParser.ts:75-105).                        *)
(***************************************************************************)
RECURSIVE Pow10(_)
Pow10(k) == IF k <= 0 THEN 1 ELSE 10 * Pow10(k - 1)

\* Math.ceil(maxTime / Math.pow(10, -timescale)), in exact arithmetic (the
\* rounding of the floating-point division is not modelled); maxTime is
\* never negative
MaxCyclesOf(maxTime, timescale) ==
  IF IsNaN(maxTime) \/ timescale = NotANumber THEN NaN
  ELSE IF timescale > 0 THEN maxTime * Pow10(timescale)
  ELSE (maxTime + Pow10(0 - timescale) - 1) \div Pow10(0 - timescale)

\* value[k], k counted from 0: a one-character string, or undefined
CharAt(value, k) ==
  IF value # Undefined /\ k >= 0 /\ k < Len(value) THEN <<value[k + 1]>> ELSE Undefined

\* signal.name.split("[")[0]
BaseName(name) == SplitChar(name, "[")[1]

\* signal.name.match(/\[(.+)\]/)?.[1]: from the first '[' that has a ']'
\* at least two places later, to the last ']'; undefined without a match
RangeOf(name) ==
  LET closes == {i \in 1..Len(name) : name[i] = "]"}
      last   == IF closes = {} THEN 0 ELSE SetMax(closes)
      opens  == {i \in 1..Len(name) : name[i] = "[" /\ i + 2 <= last}
  IN  IF opens = {} THEN Undefined ELSE SubSeq(name, SetMin(opens) + 1, last - 1)

\* the name `${baseName}[${i}]`
BitName(baseName, i) == baseName \o <<"[">> \o NumToStr(i) \o <<"]">>

\* const bitSignal = { name, width: 1, wave: signal.wave.map(...), hierarchy }
BitSignal(signal, baseName, high, i) ==
  [name |-> BitName(baseName, i),
   width |-> 1,
   wave |-> [k \in 1..Len(signal.wave) |->
               <<signal.wave[k][1], CharAt(signal.wave[k][2], high - i)>>],
   hierarchy |-> signal.hierarchy]

RECURSIVE ExpandBits(_, _, _, _, _)
\* for (let i = low; i <= high; i++) signals[`${baseName}[${i}]`] = bitSignal
ExpandBits(sigs, signal, baseName, high, i) ==
  IF ~NumLe(i, high) THEN sigs
  ELSE ExpandBits(SetSignal(sigs, BitName(baseName, i),
                            BitSignal(signal, baseName, high, i)),
                  signal, baseName, high, i + 1)

\* signal.width > 1 && signal.name.includes("["), for a name that is a string
IsBus(signal) == NumGt(signal.width, 1) /\ Includes(signal.name, "[")

\* the body of the forEach for one signal of the snapshot
ExpandSignal(sigs, signal) ==
  IF ~IsBus(signal) THEN sigs
  ELSE LET range == RangeOf(signal.name)
       IN  IF range = Undefined THEN sigs
           ELSE LET hl   == SplitChar(range, ":")
                    high == ToNumber(Part(hl, 0))
                    low  == ToNumber(Part(hl, 1))
                IN  ExpandBits(sigs, signal, BaseName(signal.name), high, low)

RECURSIVE ExpandFrom(_, _, _)
\* Object.values(signals).forEach(...): the loop runs over the values taken
\* before it starts, and writes the bit signals into the table
ExpandFrom(sigs, snapshot, k) ==
  IF k > Len(snapshot) THEN sigs
  ELSE ExpandFrom(ExpandSignal(sigs, snapshot[k]), snapshot, k + 1)

ExpandBuses(sigs) == ExpandFrom(sigs, sigs, 1)

\* signal.name.includes("[") on a name that is undefined throws a TypeError:
\* a `$var` line with a width above 1 and no name field
ExpansionThrows(sigs) ==
  \E k \in 1..Len(sigs) : NumGt(sigs[k].width, 1) /\ sigs[k].name = Undefined

\* Object.values(signals) of the resolved document
SignalValues(sigs) ==
  [k \in 1..Len(sigs) |->
     [name |-> sigs[k].name, width |-> sigs[k].width, wave |-> sigs[k].wave,
      hierarchy |-> sigs[k].hierarchy]]

\* the document handed to resolve; its timescale is Math.pow(10, -timescale),
\* kept as the exponent of 10 (NaN for a timescale that is no number)
Document(st) ==
  [signals |-> SignalValues(ExpandBuses(st.signals)),
   timescaleExp |-> IF st.timescale = NotANumber THEN NaN ELSE 0 - st.timescale,
   maxCycles |-> MaxCyclesOf(st.maxTime, st.timescale)]

\* no document yet
NoDocument == [signals |-> <<>>, timescaleExp |-> 0, maxCycles |-> 0]

(***************************************************************************)
(* processChunk (vcdParser.ts:34-107) on the closure c of one parseVCD     *)
(* call. sync: the call parseVCD itself makes inside the promise executor, *)
(* where a throw rejects the promise; in a timer callback a throw is an    *)
(* uncaught exception and the promise stays pending.                       *)
(***************************************************************************)
processChunk(c, start, sync) ==
  LET end == ChunkEnd(start, Len(c.lines))
      st  == ProcessLines(c.st, c.lines, start, end)
  IN  IF end < Len(c.lines)
      THEN [c EXCEPT !.st = st, !.next = end, !.chunks = @ + 1]
      ELSE IF ExpansionThrows(st.signals)
      THEN [c EXCEPT !.st = st, !.next = end, !.chunks = @ + 1,
                     !.status = IF sync THEN "rejected" ELSE "crashed"]
      ELSE [c EXCEPT !.st = st, !.next = end, !.chunks = @ + 1,
                     !.status = "resolved", !.doc = Document(st),
                     !.resolves = @ + 1]

\* the closure parseVCD creates: its own lines and parser variables
NewParse(vcdContent) ==
  [vcdContent |-> vcdContent,
   lines |-> SplitChar(vcdContent, "\n"),
   st |-> ParserInit,
   next |-> 0,
   chunks |-> 0,
   status |-> "timer",
   doc |-> NoDocument,
   resolves |-> 0]

\* a bug: currentTime declared inside processChunk, so each chunk starts at 0
ClosureResetsTime(ps, i) == [ps[i] EXCEPT !.st.currentTime = 0]

\* a bug: the parser variables at module level, shared by all calls, so a
\* callback finds the variables as the latest call left them
ClosureSharesState(ps, i) == [ps[i] EXCEPT !.st = ps[Len(ps)].st]

\* the closure the timer callback of parse i runs in: the variables of its
\* own parseVCD call
ClosureOf(ps, i) == ps[i]

(***************************************************************************)
(* Input texts.                                                            *)
(***************************************************************************)
\* lines of every form the parser tells apart, well-formed and malformed
FreeLines ==
  <<(* $var wire 1 ! clk $end *)
     <<"$", "v", "a", "r", " ", "w", "i", "r", "e", " ", "1", " ", "!", " ", "c", "l", "k", " ", "$", "e", "n", "d">>,
   (* $var wire 2 # SW[1:0] $end *)
     <<"$", "v", "a", "r", " ", "w", "i", "r", "e", " ", "2", " ", "#", " ", "S", "W", "[", "1", ":", "0", "]", " ", "$", "e", "n", "d">>,
   (* $var wire 4 ! *)
     <<"$", "v", "a", "r", " ", "w", "i", "r", "e", " ", "4", " ", "!">>,
   (* $var *)
     <<"$", "v", "a", "r">>,
   (* $var wire 1 *)
     <<"$", "v", "a", "r", " ", "w", "i", "r", "e", " ", "1">>,
   (* $timescale 10ns $end *)
     <<"$", "t", "i", "m", "e", "s", "c", "a", "l", "e", " ", "1", "0", "n", "s", " ", "$", "e", "n", "d">>,
   (* $timescale *)
     <<"$", "t", "i", "m", "e", "s", "c", "a", "l", "e">>,
   (* $timescale 100 ps $end *)
     <<"$", "t", "i", "m", "e", "s", "c", "a", "l", "e", " ", "1", "0", "0", " ", "p", "s", " ", "$", "e", "n", "d">>,
   (* $scope module top $end *)
     <<"$", "s", "c", "o", "p", "e", " ", "m", "o", "d", "u", "l", "e", " ", "t", "o", "p", " ", "$", "e", "n", "d">>,
   (* $scope *)
     <<"$", "s", "c", "o", "p", "e">>,
   (* $upscope $end *)
     <<"$", "u", "p", "s", "c", "o", "p", "e", " ", "$", "e", "n", "d">>,
   (* #7 *)
     <<"#", "7">>,
   (* # *)
     <<"#">>,
   (* 1! *)
     <<"1", "!">>,
   (* X! *)
     <<"X", "!">>,
   (* 1? *)
     <<"1", "?">>,
   (* b1 # *)
     <<"b", "1", " ", "#">>,
   (* b101 *)
     <<"b", "1", "0", "1">>,
   (* b *)
     <<"b">>,
   (* garbage *)
     <<"g", "a", "r", "b", "a", "g", "e">>,
   (* (empty line) *)
     <<>>,
   (*  0!\r *)
     <<" ", "0", "!", "\r">>>>
\* value-change section lines
BodyLines ==
  <<(* #0 *)
     <<"#", "0">>,
   (* #5 *)
     <<"#", "5">>,
   (* 0! *)
     <<"0", "!">>,
   (* 1! *)
     <<"1", "!">>,
   (* b1 # *)
     <<"b", "1", " ", "#">>,
   (* b10 # *)
     <<"b", "1", "0", " ", "#">>>>
\* a header declaring one scalar signal
Header1 ==
  <<(* $var wire 1 ! clk $end *)
     <<"$", "v", "a", "r", " ", "w", "i", "r", "e", " ", "1", " ", "!", " ", "c", "l", "k", " ", "$", "e", "n", "d">>>>
\* a header with a timescale, a scope, a scalar signal and a bus
Header2 ==
  <<(* $timescale 1ns $end *)
     <<"$", "t", "i", "m", "e", "s", "c", "a", "l", "e", " ", "1", "n", "s", " ", "$", "e", "n", "d">>,
   (* $scope module top $end *)
     <<"$", "s", "c", "o", "p", "e", " ", "m", "o", "d", "u", "l", "e", " ", "t", "o", "p", " ", "$", "e", "n", "d">>,
   (* $var wire 1 ! clk $end *)
     <<"$", "v", "a", "r", " ", "w", "i", "r", "e", " ", "1", " ", "!", " ", "c", "l", "k", " ", "$", "e", "n", "d">>,
   (* $var wire 2 # SW[1:0] $end *)
     <<"$", "v", "a", "r", " ", "w", "i", "r", "e", " ", "2", " ", "#", " ", "S", "W", "[", "1", ":", "0", "]", " ", "$", "e", "n", "d">>,
   (* $upscope $end *)
     <<"$", "u", "p", "s", "c", "o", "p", "e", " ", "$", "e", "n", "d">>>>
\* the round-trip example of the specification
RoundTrip ==
  <<(* $var wire 1 ! clk $end *)
     <<"$", "v", "a", "r", " ", "w", "i", "r", "e", " ", "1", " ", "!", " ", "c", "l", "k", " ", "$", "e", "n", "d">>,
   (* #0 *)
     <<"#", "0">>,
   (* 0! *)
     <<"0", "!">>,
   (* #5 *)
     <<"#", "5">>,
   (* 1! *)
     <<"1", "!">>,
   (* #10 *)
     <<"#", "1", "0">>,
   (* 0! *)
     <<"0", "!">>>>
\* a bus declared in a scope, changed twice
BusDump ==
  <<(* $timescale 1ns $end *)
     <<"$", "t", "i", "m", "e", "s", "c", "a", "l", "e", " ", "1", "n", "s", " ", "$", "e", "n", "d">>,
   (* $scope module top $end *)
     <<"$", "s", "c", "o", "p", "e", " ", "m", "o", "d", "u", "l", "e", " ", "t", "o", "p", " ", "$", "e", "n", "d">>,
   (* $var wire 2 # SW[1:0] $end *)
     <<"$", "v", "a", "r", " ", "w", "i", "r", "e", " ", "2", " ", "#", " ", "S", "W", "[", "1", ":", "0", "]", " ", "$", "e", "n", "d">>,
   (* $upscope $end *)
     <<"$", "u", "p", "s", "c", "o", "p", "e", " ", "$", "e", "n", "d">>,
   (* #0 *)
     <<"#", "0">>,
   (* b10 # *)
     <<"b", "1", "0", " ", "#">>,
   (* #5 *)
     <<"#", "5">>,
   (* b1 # *)
     <<"b", "1", " ", "#">>,
   (* #10 *)
     <<"#", "1", "0">>>>
\* a nameless wide signal in a text of two chunks
LateThrow ==
  <<(* $var wire 4 ! *)
     <<"$", "v", "a", "r", " ", "w", "i", "r", "e", " ", "4", " ", "!">>,
   (* #0 *)
     <<"#", "0">>,
   (* #5 *)
     <<"#", "5">>>>

RECURSIVE Join(_)
\* the text whose lines are ls: the lines joined by "\n"
Join(ls) ==
  IF ls = <<>> THEN <<>>
  ELSE IF Len(ls) = 1 THEN ls[1]
  ELSE ls[1] \o <<"\n">> \o Join(Tail(ls))

\* the sequences over 1..n of length at most max
IndexSeqs(n, max) == UNION {[1..k -> 1..n] : k \in 0..max}

PickLines(pool, idx) == [k \in 1..Len(idx) |-> pool[idx[k]]]

\* a scalar signal changed at a time that goes back
Unsorted ==
  <<(* $var wire 1 ! clk $end *)
     Header1[1],
   (* #5 *)
     <<"#", "5">>,
   (* 0! *)
     <<"0", "!">>,
   (* #0 *)
     <<"#", "0">>,
   (* 1! *)
     <<"1", "!">>>>

\* a bus of the same name declared in two scopes under two ids
SameName ==
  <<(* $scope module a $end *)
     <<"$", "s", "c", "o", "p", "e", " ", "m", "o", "d", "u", "l", "e", " ", "a", " ", "$", "e", "n", "d">>,
   (* $var wire 2 # SW[1:0] $end *)
     <<"$", "v", "a", "r", " ", "w", "i", "r", "e", " ", "2", " ", "#", " ", "S", "W", "[", "1", ":", "0", "]", " ", "$", "e", "n", "d">>,
   (* $upscope $end *)
     <<"$", "u", "p", "s", "c", "o", "p", "e", " ", "$", "e", "n", "d">>,
   (* $scope module b $end *)
     <<"$", "s", "c", "o", "p", "e", " ", "m", "o", "d", "u", "l", "e", " ", "b", " ", "$", "e", "n", "d">>,
   (* $var wire 2 $ SW[1:0] $end *)
     <<"$", "v", "a", "r", " ", "w", "i", "r", "e", " ", "2", " ", "$", " ", "S", "W", "[", "1", ":", "0", "]", " ", "$", "e", "n", "d">>,
   (* $upscope $end *)
     <<"$", "u", "p", "s", "c", "o", "p", "e", " ", "$", "e", "n", "d">>,
   (* #0 *)
     <<"#", "0">>,
   (* b10 # *)
     <<"b", "1", "0", " ", "#">>,
   (* b01 $ *)
     <<"b", "0", "1", " ", "$">>>>

\* a clock that starts undefined, a three-bit signal with an undefined bit, a
\* signal named SW and a bus LEDR
Mixed ==
  <<(* $var wire 1 ! clk $end *)
     <<"$", "v", "a", "r", " ", "w", "i", "r", "e", " ", "1", " ", "!", " ", "c", "l", "k", " ", "$", "e", "n", "d">>,
   (* $var wire 3 % data $end *)
     <<"$", "v", "a", "r", " ", "w", "i", "r", "e", " ", "3", " ", "%", " ", "d", "a", "t", "a", " ", "$", "e", "n", "d">>,
   (* $var wire 2 # SW $end *)
     <<"$", "v", "a", "r", " ", "w", "i", "r", "e", " ", "2", " ", "#", " ", "S", "W", " ", "$", "e", "n", "d">>,
   (* $var wire 2 & LEDR[1:0] $end *)
     <<"$", "v", "a", "r", " ", "w", "i", "r", "e", " ", "2", " ", "&", " ", "L", "E", "D", "R", "[", "1", ":", "0", "]", " ", "$", "e", "n", "d">>,
   (* #0 *)
     <<"#", "0">>,
   (* x! *)
     <<"x", "!">>,
   (* b1x0 % *)
     <<"b", "1", "x", "0", " ", "%">>,
   (* b10 # *)
     <<"b", "1", "0", " ", "#">>,
   (* b11 & *)
     <<"b", "1", "1", " ", "&">>,
   (* #5 *)
     <<"#", "5">>,
   (* 1! *)
     <<"1", "!">>,
   (* b101 % *)
     <<"b", "1", "0", "1", " ", "%">>,
   (* b01 # *)
     <<"b", "0", "1", " ", "#">>,
   (* #10 *)
     <<"#", "1", "0">>,
   (* 0! *)
     <<"0", "!">>>>

\* scopes opened inside one another and closed more often than opened
Nested ==
  <<(* $upscope $end *)
     <<"$", "u", "p", "s", "c", "o", "p", "e", " ", "$", "e", "n", "d">>,
   (* $scope module top $end *)
     <<"$", "s", "c", "o", "p", "e", " ", "m", "o", "d", "u", "l", "e", " ", "t", "o", "p", " ", "$", "e", "n", "d">>,
   (* $scope module u1 $end *)
     <<"$", "s", "c", "o", "p", "e", " ", "m", "o", "d", "u", "l", "e", " ", "u", "1", " ", "$", "e", "n", "d">>,
   (* $var wire 1 ! clk $end *)
     <<"$", "v", "a", "r", " ", "w", "i", "r", "e", " ", "1", " ", "!", " ", "c", "l", "k", " ", "$", "e", "n", "d">>,
   (* $upscope $end *)
     <<"$", "u", "p", "s", "c", "o", "p", "e", " ", "$", "e", "n", "d">>,
   (* $var wire 1 % rst $end *)
     <<"$", "v", "a", "r", " ", "w", "i", "r", "e", " ", "1", " ", "%", " ", "r", "s", "t", " ", "$", "e", "n", "d">>,
   (* $upscope $end *)
     <<"$", "u", "p", "s", "c", "o", "p", "e", " ", "$", "e", "n", "d">>,
   (* $upscope $end *)
     <<"$", "u", "p", "s", "c", "o", "p", "e", " ", "$", "e", "n", "d">>,
   (* $var wire 1 & q $end *)
     <<"$", "v", "a", "r", " ", "w", "i", "r", "e", " ", "1", " ", "&", " ", "q", " ", "$", "e", "n", "d">>>>

\* two scalar signals declared as the bits of one base name
Bits ==
  <<(* $var wire 1 ! d[0] $end *)
     <<"$", "v", "a", "r", " ", "w", "i", "r", "e", " ", "1", " ", "!", " ", "d", "[", "0", "]", " ", "$", "e", "n", "d">>,
   (* $var wire 1 % d[1] $end *)
     <<"$", "v", "a", "r", " ", "w", "i", "r", "e", " ", "1", " ", "%", " ", "d", "[", "1", "]", " ", "$", "e", "n", "d">>,
   (* #0 *)
     <<"#", "0">>,
   (* 1! *)
     <<"1", "!">>,
   (* 0% *)
     <<"0", "%">>,
   (* #5 *)
     <<"#", "5">>,
   (* 0! *)
     <<"0", "!">>>>

\* an input: <<0, idx>> is the text of the lines idx of FreeLines;
\* <<h, idx>> for h > 0 is prefix h followed by the lines idx of BodyLines
Prefixes ==
  <<Header1, Header2, RoundTrip, BusDump, LateThrow, Unsorted, SameName, Mixed, Nested,
    Bits>>

TextOf(in) ==
  IF in[1] = 0 THEN Join(PickLines(FreeLines, in[2]))
  ELSE Join(Prefixes[in[1]] \o PickLines(BodyLines, in[2]))

Inputs ==
  ({0} \X IndexSeqs(Len(FreeLines), MaxFree))
    \cup ({1, 2} \X IndexSeqs(Len(BodyLines), MaxBody))
    \cup ({3, 4, 5, 6, 7, 9} \X {<<>>})

\* texts of several chunks each, for parses in flight together
ConcurrentInputs ==
  ({3, 4, 5} \X {<<>>}) \cup ({2} \X {<<1, 3>>, <<2, 4, 1, 6>>, <<6>>})

\* the documents the viewer is driven on
ViewInputs == ({3, 4, 6} \X {<<>>}) \cup ({0} \X {<<>>, <<1>>})

\* documents with groups and undefined values, for the drawing and the rows
DrawInputs == {3, 4, 8, 10} \X {<<>>}

(***************************************************************************)
(* State.                                                                  *)
(***************************************************************************)
VARIABLES
  parses,          \* the closures of the parseVCD calls made so far, in call order
  waveform,        \* App: the document shown (useState), NoDocument for null
  loading,         \* App: the loading flag
  zoom,            \* WaveformViewer: the zoom, in thousandths
  lastZoom,        \* WaveformViewer: the setZoom call made last, "none" before any
  offset,          \* WaveformViewer: the scroll offset {x, y}, in pixels
  cursorPosition,  \* WaveformViewer: the time under the pointer, or null
  hoverInfo,       \* WaveformViewer: {name, value, y}, or null
  showHoverInfo,   \* WaveformViewer: whether the hover box is drawn
  expandedSignals, \* WaveformViewer: group name -> expanded, for SW and LEDR
  call             \* a call of parseTimescale: its argument and what it returned

app == <<waveform, loading>>
view == <<zoom, lastZoom, offset, cursorPosition, hoverInfo, showHoverInfo,
         expandedSignals>>
vars == <<parses, waveform, loading, zoom, lastZoom, offset, cursorPosition, hoverInfo,
         showHoverInfo, expandedSignals, call>>

(***************************************************************************)
(* WaveformViewer (WaveformViewer.tsx:29-579).                             *)
(***************************************************************************)
signalHeight == 30
sidebarWidth == 250
timeScaleHeight == 30
\* canvas.width, set from the element's client width (WaveformViewer.tsx:389)
CanvasWidth == 350

\* the zoom 1 of useState(1), in thousandths
ZoomOne == 1000
\* the slider's min={0.1} and the floor of zoom-out
ZoomMin == 100
\* the slider's max={10} and the ceiling of zoom-in
ZoomMax == 10000

\* a time: a fraction num/den with den > 0, NaN, or null
Null == [kind |-> "null", num |-> 0, den |-> 1]
NaNTime == [kind |-> "NaN", num |-> 0, den |-> 1]
Frac(n, d) == [kind |-> "num", num |-> n, den |-> d]

\* no hover record
NoHover == [shown |-> FALSE, name |-> <<>>, value |-> <<>>, y |-> 0]

\* the times of all wave entries of all signals, in forEach order
RECURSIVE AllTimes(_, _)
AllTimes(signals, k) ==
  IF k > Len(signals) THEN <<>>
  ELSE [j \in 1..Len(signals[k].wave) |-> signals[k].wave[j][1]]
         \o AllTimes(signals, k + 1)

\* max over the wave times with Math.max from -Infinity; 0 when there is none
maxTimeOf(data) ==
  LET ts == AllTimes(data.signals, 1)
  IN  IF ts = <<>> THEN 0
      ELSE IF \E j \in 1..Len(ts) : IsNaN(ts[j]) THEN NaN
      ELSE SetMax({ts[j] : j \in 1..Len(ts)})

\* min over the wave times with Math.min from Infinity; 0 when there is none
minTimeOf(data) ==
  LET ts == AllTimes(data.signals, 1)
  IN  IF ts = <<>> THEN 0
      ELSE IF \E j \in 1..Len(ts) : IsNaN(ts[j]) THEN NaN
      ELSE SetMin({ts[j] : j \in 1..Len(ts)})

\* const timeRange = maxTime - minTime
timeRangeOf(data) ==
  LET maxTime == maxTimeOf(data)
  IN  IF IsNaN(maxTime) THEN NaN ELSE maxTime - minTimeOf(data)

\* a bug: the time taken from x alone, without the horizontal scroll
TimeAtNoScroll(data, x, z, off) ==
  LET timeRange == timeRangeOf(data)
      minTime   == minTimeOf(data)
  IN  IF IsNaN(timeRange) THEN NaNTime
      ELSE Frac(x * timeRange * ZoomOne
                  + minTime * (CanvasWidth - sidebarWidth) * z,
                (CanvasWidth - sidebarWidth) * z)

\* time = x / xScale + minTime + offset.x / xScale with
\* xScale = ((canvas.width - sidebarWidth) * zoom) / timeRange, in exact
\* arithmetic: minTime + (x + offset.x) * timeRange / ((width - sidebar) * zoom).
\* A zero timeRange makes xScale infinite and the time minTime.
TimeAt(data, x, z, off) ==
  LET timeRange == timeRangeOf(data)
      minTime   == minTimeOf(data)
  IN  IF IsNaN(timeRange) THEN NaNTime
      ELSE Frac((x + off.x) * timeRange * ZoomOne
                  + minTime * (CanvasWidth - sidebarWidth) * z,
                (CanvasWidth - sidebarWidth) * z)

\* t > time for a wave time t: false when either is NaN
After(t, time) ==
  ~IsNaN(t) /\ time.kind = "num" /\ t * time.den > time.num

\* a bug: the index taken from y alone, without the vertical scroll
SignalIndexNoScroll(y, off) == (y - timeScaleHeight) \div signalHeight

\* Math.floor((y - timeScaleHeight + offset.y) / signalHeight)
SignalIndex(y, off) == (y - timeScaleHeight + off.y) \div signalHeight

\* signal.wave.find(([t]) => t > time)?.[1], else the last entry's value,
\* else "Unknown"
WaveValue(wave, time) ==
  LET later == {j \in 1..Len(wave) : After(wave[j][1], time)}
  IN  IF later # {} THEN wave[SetMin(later)][2]
      ELSE IF wave # <<>> THEN wave[Len(wave)][2]
      ELSE <<"U", "n", "k", "n", "o", "w", "n">>

\* the viewer renders its canvas: App shows it when !loading && waveform, and
\* it returns the no-data box for a document without signals
Mounted == ~loading /\ waveform # NoDocument /\ Len(waveform.signals) > 0

ViewInit ==
  /\ zoom = ZoomOne
  /\ lastZoom = "none"
  /\ offset = [x |-> 0, y |-> 0]
  /\ cursorPosition = Null
  /\ hoverInfo = NoHover
  /\ showHoverInfo = TRUE
  /\ expandedSignals = [SW |-> FALSE, LEDR |-> FALSE]

\* a viewer mounted anew starts from its useState defaults
ViewReset ==
  /\ zoom' = ZoomOne
  /\ lastZoom' = "none"
  /\ offset' = [x |-> 0, y |-> 0]
  /\ cursorPosition' = Null
  /\ hoverInfo' = NoHover
  /\ showHoverInfo' = TRUE
  /\ expandedSignals' = [SW |-> FALSE, LEDR |-> FALSE]

\* the slider's onChange: newValue is a step of the slider
handleZoom(newValue) ==
  /\ Mounted
  /\ zoom' = newValue
  /\ lastZoom' = "slider"
  /\ UNCHANGED <<parses, app, offset, cursorPosition, hoverInfo, showHoverInfo,
                 expandedSignals, call>>

\* prevZoom * 1.2 without the ceiling
ZoomInUnclamped(prevZoom) == (prevZoom * 12 + 5) \div 10

\* Math.min(prevZoom * 1.2, 10); the product is rounded to the thousandth
\* as the double product is rounded to 53 bits
ZoomInTo(prevZoom) == MathMin((prevZoom * 12 + 5) \div 10, ZoomMax)

\* Math.max(prevZoom / 1.2, 0.1)
ZoomOutTo(prevZoom) == MathMax((prevZoom * 10 + 6) \div 12, ZoomMin)

\* the zoom-in button of the viewer with buttons (part_004:474-476)
handleZoomIn ==
  /\ Mounted
  /\ zoom' = ZoomInTo(zoom)
  /\ lastZoom' = "in"
  /\ UNCHANGED <<parses, app, offset, cursorPosition, hoverInfo, showHoverInfo,
                 expandedSignals, call>>

\* the zoom-out button (part_004:478-480)
handleZoomOut ==
  /\ Mounted
  /\ zoom' = ZoomOutTo(zoom)
  /\ lastZoom' = "out"
  /\ UNCHANGED <<parses, app, offset, cursorPosition, hoverInfo, showHoverInfo,
                 expandedSignals, call>>

handleScroll(scrollLeft, scrollTop) ==
  /\ Mounted
  /\ offset' = [x |-> scrollLeft, y |-> scrollTop]
  /\ UNCHANGED <<parses, app, zoom, lastZoom, cursorPosition, hoverInfo,
                 showHoverInfo, expandedSignals, call>>

\* the entries of a wave in reverse order
Reversed(wave) == [j \in 1..Len(wave) |-> wave[Len(wave) + 1 - j]]

\* a bug: the hovered wave searched from its end with signal.wave.reverse(),
\* which reverses the document's own array
handleMouseMoveReversing(px, py) ==
  LET x    == px - sidebarWidth
      y    == py
      time == TimeAt(waveform, x, zoom, offset)
      signalIndex == SignalIndex(y, offset)
  IN  /\ Mounted
      /\ cursorPosition' = time
      /\ IF signalIndex >= 0 /\ signalIndex < Len(waveform.signals)
         THEN LET signal == waveform.signals[signalIndex + 1]
              IN  /\ hoverInfo' = [shown |-> TRUE, name |-> signal.name,
                                   value |-> WaveValue(signal.wave, time), y |-> y]
                  /\ waveform' = [waveform EXCEPT
                                    !.signals[signalIndex + 1].wave = Reversed(@)]
         ELSE hoverInfo' = NoHover /\ waveform' = waveform
      /\ UNCHANGED <<parses, loading, zoom, lastZoom, offset, showHoverInfo,
                     expandedSignals, call>>

\* px, py: e.clientX - rect.left and e.clientY - rect.top
handleMouseMove(px, py) ==
  LET x    == px - sidebarWidth
      y    == py
      time == TimeAt(waveform, x, zoom, offset)
      signalIndex == SignalIndex(y, offset)
  IN  /\ Mounted
      /\ cursorPosition' = time
      /\ IF signalIndex >= 0 /\ signalIndex < Len(waveform.signals)
         THEN LET signal == waveform.signals[signalIndex + 1]
              IN  hoverInfo' = [shown |-> TRUE, name |-> signal.name,
                                value |-> WaveValue(signal.wave, time), y |-> y]
         ELSE hoverInfo' = NoHover
      /\ UNCHANGED <<parses, app, zoom, lastZoom, offset, showHoverInfo,
                     expandedSignals, call>>

handleMouseLeave ==
  /\ Mounted
  /\ cursorPosition' = Null
  /\ hoverInfo' = NoHover
  /\ UNCHANGED <<parses, app, zoom, lastZoom, offset, showHoverInfo,
                     expandedSignals, call>>

\* the Switch's onChange
toggleHoverInfo ==
  /\ Mounted
  /\ showHoverInfo' = ~showHoverInfo
  /\ UNCHANGED <<parses, app, zoom, lastZoom, offset, cursorPosition, hoverInfo,
                 expandedSignals, call>>

(***************************************************************************)
(* Grouping and the rows (WaveformViewer.tsx:54-79, 151-189, 463-503).     *)
(***************************************************************************)
nameSW == <<"S", "W">>
nameLEDR == <<"L", "E", "D", "R">>

\* the Signal the viewer reads: name, width and wave
ViewSignal(s) == [name |-> s.name, width |-> s.width, wave |-> s.wave]

\* the bit signals made of a signal named SW or LEDR: bit i takes the
\* character width - 1 - i of every value; none for a width that is NaN
SplitSignal(signal) ==
  IF IsNaN(signal.width) \/ signal.width < 1 THEN <<>>
  ELSE [b \in 1..signal.width |->
          [name |-> BitName(signal.name, b - 1),
           width |-> 1,
           wave |-> [k \in 1..Len(signal.wave) |->
                       <<signal.wave[k][1],
                         CharAt(signal.wave[k][2], signal.width - b)>>]]]

\* groups[k] = members: an existing key keeps its place in Object.entries
SetGroup(groups, k, members) ==
  LET e == [key |-> k, signals |-> members]
  IN  IF HasKey(groups, k)
      THEN [groups EXCEPT ![KeyPos(groups, k)] = e]
      ELSE LET p == InsertPos(groups, k)
           IN  SubSeq(groups, 1, p - 1) \o <<e>> \o SubSeq(groups, p, Len(groups))

\* the body of data.signals.forEach for one signal (names are strings here)
GroupSignal(groups, signal) ==
  IF signal.name = nameSW \/ signal.name = nameLEDR
  THEN SetGroup(groups, signal.name, SplitSignal(signal))
  ELSE LET baseName == BaseName(signal.name)
       IN  IF HasKey(groups, baseName)
           THEN [groups EXCEPT ![KeyPos(groups, baseName)].signals =
                   Append(@, ViewSignal(signal))]
           ELSE SetGroup(groups, baseName, <<ViewSignal(signal)>>)

RECURSIVE GroupFrom(_, _, _)
GroupFrom(groups, signals, k) ==
  IF k > Len(signals) THEN groups
  ELSE GroupFrom(GroupSignal(groups, signals[k]), signals, k + 1)

\* Object.entries(groupedSignals): the groups in enumeration order
groupedSignals(data) == GroupFrom(<<>>, data.signals, 1)

\* expandedSignals[groupName] for a group named SW or LEDR
IsExpanded(expanded, groupName) ==
  IF groupName = nameSW THEN expanded.SW ELSE expanded.LEDR

\* (groupName === "SW" || groupName === "LEDR") && !expandedSignals[groupName]
DrawnCollapsed(g, expanded) ==
  (g.key = nameSW \/ g.key = nameLEDR) /\ ~IsExpanded(expanded, g.key)

\* the drawSignal calls made for one group, in order: the signal, isGrouped
\* and indexInGroup (a collapsed group has a member in every input here)
RowsOfGroup(g, expanded) ==
  IF DrawnCollapsed(g, expanded)
  THEN <<[signal |-> g.signals[1], isGrouped |-> TRUE, indexInGroup |-> 0,
          group |-> g.key]>>
  ELSE [i \in 1..Len(g.signals) |->
          [signal |-> g.signals[i], isGrouped |-> FALSE, indexInGroup |-> i - 1,
           group |-> g.key]]

RECURSIVE RowsFrom(_, _, _)
RowsFrom(groups, expanded, k) ==
  IF k > Len(groups) THEN <<>>
  ELSE RowsOfGroup(groups[k], expanded) \o RowsFrom(groups, expanded, k + 1)

\* let yOffset = timeScaleHeight - offset.y, and yOffset += signalHeight
\* after every drawSignal call: the yOffset of row r, counted from 0
RowY(r, off) == timeScaleHeight - off.y + r * signalHeight

\* the rows drawWaveform stacks, top to bottom
CanvasRows(data, expanded) == RowsFrom(groupedSignals(data), expanded, 1)

\* s.wave.find((w) => w[0] === time)?.[1] || "0": the value of the first
\* entry of the wave at that time, "0" when there is none or it is undefined
ValueAtOr0(wave, time) ==
  LET at == {j \in 1..Len(wave) : ~IsNaN(time) /\ wave[j][1] = time}
  IN  IF at = {} \/ wave[SetMin(at)][2] = Undefined \/ wave[SetMin(at)][2] = <<>>
      THEN <<"0">>
      ELSE wave[SetMin(at)][2]

RECURSIVE JoinValues(_, _, _)
\* signals.map(...).join(""): the members' values at a time, first member
\* first
JoinValues(signals, time, i) ==
  IF i > Len(signals) THEN <<>>
  ELSE ValueAtOr0(signals[i].wave, time) \o JoinValues(signals, time, i + 1)

\* the signal the viewer with buttons draws for a collapsed group
\* (part_004:187-196): at each time of the first member, the members' values
\* joined
groupedSignal(g) ==
  [name |-> g.key,
   width |-> g.signals[1].width * Len(g.signals),
   wave |-> [k \in 1..Len(g.signals[1].wave) |->
               <<g.signals[1].wave[k][1],
                 JoinValues(g.signals, g.signals[1].wave[k][1], 1)>>]]

\* the signal drawn in the one row of a collapsed group: its first member
CollapsedSignal(g) == g.signals[1]

\* signals.length > 1 && (groupName === "SW" || groupName === "LEDR")
HasSelect(g) == Len(g.signals) > 1 /\ (g.key = nameSW \/ g.key = nameLEDR)

\* the element renderSignalNames returns for one group: a Select showing the
\* group, or a div showing the name of the group's first signal
SidebarRow(g, expanded) ==
  IF HasSelect(g)
  THEN [select |-> TRUE, group |-> g.key, name |-> g.key,
        expanded |-> IsExpanded(expanded, g.key)]
  ELSE [select |-> FALSE, group |-> g.key, name |-> g.signals[1].name,
        expanded |-> FALSE]

\* the children of the sidebar box, each of height signalHeight
renderSignalNames(data, expanded) ==
  LET groups == groupedSignals(data)
  IN  [k \in 1..Len(groups) |-> SidebarRow(groups[k], expanded)]

\* the Select's onChange of group groupName: value is the item picked
handleExpand(groupName, value) ==
  /\ Mounted
  /\ \E k \in 1..Len(groupedSignals(waveform)) :
       /\ groupedSignals(waveform)[k].key = groupName
       /\ HasSelect(groupedSignals(waveform)[k])
  /\ expandedSignals' =
       IF groupName = nameSW
       THEN [expandedSignals EXCEPT !.SW = (value = "expanded")]
       ELSE [expandedSignals EXCEPT !.LEDR = (value = "expanded")]
  /\ UNCHANGED <<parses, app, zoom, lastZoom, offset, cursorPosition, hoverInfo,
                 showHoverInfo, call>>

(***************************************************************************)
(* The scales and drawSignal (WaveformViewer.tsx:113-116, 191-194,         *)
(* 217-345), in exact arithmetic on fractions in lowest terms.             *)
(***************************************************************************)
RECURSIVE Gcd(_, _)
Gcd(a, b) == IF b = 0 THEN (IF a < 0 THEN 0 - a ELSE a) ELSE Gcd(b, a % b)

\* the fraction n/d, d > 0, in lowest terms
Reduce(n, d) ==
  LET g == Gcd(n, d)
  IN  IF g = 0 THEN Frac(0, 1) ELSE Frac(n \div g, d \div g)

IsNum(a) == a.kind = "num"

\* a + b, a - b, a * b and a / b of two numbers; NaN when either is NaN and
\* for a division by zero of zero
RatAdd(a, b) ==
  IF ~IsNum(a) \/ ~IsNum(b) THEN NaNTime
  ELSE LET g == Gcd(a.den, b.den)
       IN  Reduce(a.num * (b.den \div g) + b.num * (a.den \div g),
                  (a.den \div g) * b.den)

RatSub(a, b) ==
  IF ~IsNum(b) THEN NaNTime ELSE RatAdd(a, Frac(0 - b.num, b.den))

RatMul(a, b) ==
  IF ~IsNum(a) \/ ~IsNum(b) THEN NaNTime
  ELSE LET g1 == Gcd(a.num, b.den)
           g2 == Gcd(b.num, a.den)
       IN  IF g1 = 0 \/ g2 = 0 THEN Frac(0, 1)
           ELSE Reduce((a.num \div g1) * (b.num \div g2),
                       (a.den \div g2) * (b.den \div g1))

\* a <= b and a = b as numbers: false when either is NaN
RatLe(a, b) == IsNum(a) /\ IsNum(b) /\ a.num * b.den <= b.num * a.den
RatLt(a, b) == IsNum(a) /\ IsNum(b) /\ a.num * b.den < b.num * a.den
RatEq(a, b) == IsNum(a) /\ IsNum(b) /\ a.num * b.den = b.num * a.den

\* Math.min(a, b): NaN when either is NaN
RatMin(a, b) ==
  IF ~IsNum(a) \/ ~IsNum(b) THEN NaNTime ELSE IF RatLe(a, b) THEN a ELSE b

\* a wave time or a pixel count as a fraction
RatOf(n) == IF IsNaN(n) THEN NaNTime ELSE Frac(n, 1)

\* the time range is a positive number: xScale is finite. A zero time range
\* makes xScale Infinity and every pixel computed below NaN
FiniteScale(data) == ~IsNaN(timeRangeOf(data)) /\ timeRangeOf(data) > 0

\* const xScale = ((width - sidebarWidth) * zoom) / timeRange
xScale(data, z) ==
  IF FiniteScale(data)
  THEN Reduce((CanvasWidth - sidebarWidth) * z, timeRangeOf(data) * ZoomOne)
  ELSE NaNTime

\* const visibleStartTime = minTime + offset.x / xScale
visibleStartTime(data, z, off) ==
  IF FiniteScale(data)
  THEN RatAdd(RatOf(minTimeOf(data)),
              Reduce(off.x * timeRangeOf(data) * ZoomOne,
                     (CanvasWidth - sidebarWidth) * z))
  ELSE NaNTime

\* const visibleEndTime = visibleStartTime + timeRange / zoom
visibleEndTime(data, z, off) ==
  IF FiniteScale(data)
  THEN RatAdd(visibleStartTime(data, z, off),
              Reduce(timeRangeOf(data) * ZoomOne, z))
  ELSE NaNTime

\* (time - visibleStartTime) * xScale + sidebarWidth
PixelAt(data, time, z, off) ==
  RatAdd(RatMul(RatSub(time, visibleStartTime(data, z, off)), xScale(data, z)),
         RatOf(sidebarWidth))

\* const maxEndX = Math.min((visibleEndTime - visibleStartTime) * xScale
\*                          + sidebarWidth, width)
maxEndX(data, z, off) ==
  RatMin(PixelAt(data, visibleEndTime(data, z, off), z, off), RatOf(CanvasWidth))

\* the pixel the cursor line is drawn at, for a cursorPosition that is set
cursorX(data, position, z, off) == PixelAt(data, position, z, off)

\* parseInt(value, 2) === 0: the leading run of binary digits of the value
\* is not empty and all zeros (values carry no sign or blank here)
BinaryIsZero(value) ==
  /\ value # Undefined
  /\ value # <<>>
  /\ value[1] = "0"
  /\ \A i \in 1..Len(value) :
       (\A j \in 1..i : value[j] \in {"0", "1"}) => value[i] = "0"

\* value === "x" || value === "z"
IsUndefinedValue(value) == value = <<"x">> \/ value = <<"z">>

\* what the forEach body draws for entry index k of the wave: the box of an
\* undefined value, the hexagon of a signal wider than one bit, or the level
\* line of a one-bit signal, from x to nextX
Cell(signal, k, data, z, off) ==
  LET value    == signal.wave[k][2]
      endX     == maxEndX(data, z, off)
      x        == RatMin(PixelAt(data, RatOf(signal.wave[k][1]), z, off), endX)
      nextTime == IF k < Len(signal.wave) THEN RatOf(signal.wave[k + 1][1])
                  ELSE visibleEndTime(data, z, off)
      nextX    == RatMin(PixelAt(data, nextTime, z, off), endX)
  IN  [index |-> k,
       drawn |-> RatLe(RatOf(sidebarWidth - 1), x) /\ RatLe(x, endX),
       x |-> x,
       nextX |-> nextX,
       value |-> value,
       kind |-> IF IsUndefinedValue(value) THEN "box"
                ELSE IF NumGt(signal.width, 1) THEN "hexagon"
                ELSE "line",
       level |-> IF IsUndefinedValue(value) THEN "middle"
                 ELSE IF BinaryIsZero(value) THEN "low"
                 ELSE "high"]

\* the cells signal.wave.forEach draws: those of the entries that pass
\* x >= sidebarWidth - 1 && x <= maxEndX
drawSignal(signal, data, z, off) ==
  LET cells == [k \in 1..Len(signal.wave) |-> Cell(signal, k, data, z, off)]
  IN  {cells[k] : k \in {j \in 1..Len(signal.wave) : cells[j].drawn}}

\* the user's inputs the model draws from
ZoomValues == {100, 500, 1000, 2000, 10000}
ScrollLefts == {0, 50}
ScrollTops == {0, 30}
PointerXs == {250, 275, 300, 325, 350}
PointerYs == {10, 40, 70, 100, 130}

(***************************************************************************)
(* App and the parses.                                                     *)
(***************************************************************************)
\* no call of parseTimescale made
NoCall == [magnitude |-> <<>>, gap |-> <<>>, unit |-> <<>>, returned |-> FALSE, result |-> 0]

Init ==
  /\ parses = <<>>
  /\ waveform = NoDocument
  /\ loading = FALSE
  /\ ViewInit
  /\ call = NoCall

\* the continuation of `await parseVCD(contents)` in reader.onload
\* (App.tsx:17-20) runs as a microtask of the task that resolves the promise
Continue(c) ==
  IF c.status = "resolved"
  THEN waveform' = c.doc /\ loading' = FALSE
  ELSE UNCHANGED <<waveform, loading>>

\* handleFileUpload and reader.onload (App.tsx:10-24): setLoading(true)
\* unmounts the viewer, then parseVCD(contents) runs processChunk(0) before
\* it returns
parseVCD(vcdContent) ==
  LET c == processChunk(NewParse(vcdContent), 0, TRUE)
  IN  /\ parses' = Append(parses, c)
      /\ IF c.status = "resolved"
         THEN waveform' = c.doc /\ loading' = FALSE
         ELSE waveform' = waveform /\ loading' = TRUE
      /\ ViewReset
      /\ UNCHANGED call

\* setTimeout(() => processChunk(end), 0) fires for parse i
TimerChunk(i) ==
  /\ parses[i].status = "timer"
  /\ LET c == processChunk(ClosureOf(parses, i), parses[i].next, FALSE)
     IN  /\ parses' = [parses EXCEPT ![i] = c]
         /\ Continue(c)
  /\ UNCHANGED <<view, call>>

\* one parse, over every text
Next ==
  \/ \E in \in Inputs : parses = <<>> /\ parseVCD(TextOf(in))
  \/ \E i \in 1..Len(parses) : TimerChunk(i)

Spec == Init /\ [][Next]_vars

\* parses in flight together
NextConcurrent ==
  \/ \E in \in ConcurrentInputs : Len(parses) < MaxParses /\ parseVCD(TextOf(in))
  \/ \E i \in 1..Len(parses) : TimerChunk(i)

SpecConcurrent == Init /\ [][NextConcurrent]_vars

\* one upload, then the viewer's events on its document
NextView ==
  \/ \E in \in ViewInputs : parses = <<>> /\ parseVCD(TextOf(in))
  \/ \E i \in 1..Len(parses) : TimerChunk(i)
  \/ \E z \in ZoomValues : handleZoom(z)
  \/ \E l \in ScrollLefts, t \in ScrollTops : handleScroll(l, t)
  \/ \E px \in PointerXs, py \in PointerYs : handleMouseMove(px, py)
  \/ handleMouseLeave

SpecView == Init /\ [][NextView]_vars

\* one upload, then the pointer and the scroll bars at the zoom 1
NextHover ==
  \/ \E in \in {<<3, <<>>>>, <<4, <<>>>>} : parses = <<>> /\ parseVCD(TextOf(in))
  \/ \E i \in 1..Len(parses) : TimerChunk(i)
  \/ \E l \in ScrollLefts, t \in ScrollTops : handleScroll(l, t)
  \/ \E px \in PointerXs, py \in PointerYs : handleMouseMove(px, py)
  \/ handleMouseLeave

SpecHover == Init /\ [][NextHover]_vars

\* one upload, then the zoom, the horizontal scroll and the pointer along
\* one row, for what drawSignal draws
NextDraw ==
  \/ \E in \in DrawInputs : parses = <<>> /\ parseVCD(TextOf(in))
  \/ \E i \in 1..Len(parses) : TimerChunk(i)
  \/ \E z \in ZoomValues : handleZoom(z)
  \/ \E l \in ScrollLefts : handleScroll(l, 0)
  \/ \E px \in PointerXs : handleMouseMove(px, 40)
  \/ handleMouseLeave

SpecDraw == Init /\ [][NextDraw]_vars

\* one upload, then every event of the viewer, for the rows: the groups are
\* expanded and collapsed, the pointer moves down one column
NextLayout ==
  \/ \E in \in DrawInputs : parses = <<>> /\ parseVCD(TextOf(in))
  \/ \E i \in 1..Len(parses) : TimerChunk(i)
  \/ handleZoom(2 * ZoomOne)
  \/ \E t \in ScrollTops : handleScroll(0, t)
  \/ \E py \in PointerYs : handleMouseMove(300, py)
  \/ handleMouseLeave
  \/ toggleHoverInfo
  \/ \E g \in {nameSW, nameLEDR}, v \in {"collapsed", "expanded"} : handleExpand(g, v)

SpecLayout == Init /\ [][NextLayout]_vars

\* every step of the slider: 0.1, 0.2, ... 10
SliderSteps == {ZoomMin * k : k \in 1..(ZoomMax \div ZoomMin)}

\* one upload, then the zoom controls of both viewers
NextZoom ==
  \/ parses = <<>> /\ parseVCD(TextOf(<<3, <<>>>>))
  \/ \E i \in 1..Len(parses) : TimerChunk(i)
  \/ \E z \in SliderSteps : handleZoom(z)
  \/ handleZoomIn
  \/ handleZoomOut

SpecZoom == Init /\ [][NextZoom]_vars

(***************************************************************************)
(* parseTimescale on its own: the argument is a run of digits, a gap and a *)
(* word, any of them possibly empty or malformed.                          *)
(***************************************************************************)
Magnitudes ==
  {<<>>, <<"1">>, <<"1", "0">>, <<"1", "0", "0">>, <<"5">>, <<"0", "1">>,
   <<"1", "0", "0", "0">>}

Gaps == {<<>>, <<" ">>, <<" ", " ">>, <<"\t">>}

Units ==
  {<<>>, <<"s">>, <<"m", "s">>, <<"u", "s">>, <<"n", "s">>, <<"p", "s">>,
   <<"f", "s">>, <<"x", "s">>, <<"N", "S">>, <<"n", " ", "s">>, <<"n", "-">>,
   <<"g", "a", "r", "b", "a", "g", "e">>,
   <<"c", "o", "n", "s", "t", "r", "u", "c", "t", "o", "r">>}

\* the string passed: the three pieces in a row
ArgOf(c) == c.magnitude \o c.gap \o c.unit

InitTimescale ==
  /\ parses = <<>>
  /\ waveform = NoDocument
  /\ loading = FALSE
  /\ ViewInit
  /\ \E m \in Magnitudes, g \in Gaps, u \in Units :
       call = [magnitude |-> m, gap |-> g, unit |-> u, returned |-> FALSE, result |-> 0]

\* the call parseTimescale(str) and its return
CallParseTimescale ==
  /\ ~call.returned
  /\ call' = [call EXCEPT !.returned = TRUE, !.result = parseTimescale(ArgOf(call))]
  /\ UNCHANGED <<parses, app, view>>

NextTimescale == CallParseTimescale

SpecTimescale == InitTimescale /\ [][NextTimescale]_vars

\* the timer callbacks the event loop owes are run: a due timer fires
SpecFair == Spec /\ WF_vars(\E i \in 1..MaxParses : i <= Len(parses) /\ TimerChunk(i))

(***************************************************************************)
(* The claims.                                                             *)
(***************************************************************************)
Thrown(c) == c.status \in {"rejected", "crashed"}

\* the parser state after all lines of c in one uninterrupted pass
SinglePassState(c) == ProcessLines(ParserInit, c.lines, 0, Len(c.lines))

\* C1: chunked processing yields exactly the document of one uninterrupted
\* pass over all lines (same signals in the same order, waves, timescale,
\* maxCycles), and the state a pending chunk starts from is exactly the state
\* after the last line of the previous chunk.
C1_ChunkedEqualsSinglePass ==
  \A i \in 1..Len(parses) :
    LET c == parses[i]
    IN  /\ c.status = "timer" =>
             c.st = ProcessLines(ParserInit, c.lines, 0, c.next)
        /\ c.status = "resolved" =>
             /\ ~ExpansionThrows(SinglePassState(c).signals)
             /\ c.doc = Document(SinglePassState(c))
        /\ Thrown(c) => ExpansionThrows(SinglePassState(c).signals)

\* a parse of three chunks or more has resolved with a change recorded at a
\* time set in an earlier chunk
C1_Witness ==
  \E i \in 1..Len(parses) :
    /\ parses[i].status = "resolved"
    /\ parses[i].chunks >= 3
    /\ \E k \in 1..Len(parses[i].doc.signals) :
         \E j \in 1..Len(parses[i].doc.signals[k].wave) :
           parses[i].doc.signals[k].wave[j][1] > 0

\* C2: in every returned document every wave is sorted ascending by time
\* with no two entries at the same time.
C2_WavesSortedNoDuplicates ==
  \A i \in 1..Len(parses) :
    parses[i].status = "resolved" =>
      \A k \in 1..Len(parses[i].doc.signals) :
        LET wave == parses[i].doc.signals[k].wave
        IN  \A a, b \in 1..Len(wave) : a < b => NumGt(wave[b][1], wave[a][1])

\* C3: in every returned document every signal has a non-empty wave whose
\* first entry is at time 0.
C3_FirstEntryAtTimeZero ==
  \A i \in 1..Len(parses) :
    parses[i].status = "resolved" =>
      \A k \in 1..Len(parses[i].doc.signals) :
        LET wave == parses[i].doc.signals[k].wave
        IN  wave # <<>> /\ wave[1][1] = 0

\* C4: parseVCD neither throws nor rejects its promise, whatever the input.
C4_NeverThrows == \A i \in 1..Len(parses) : ~Thrown(parses[i])

\* C5: under fair scheduling of the timer callbacks every started parse is
\* eventually resolved with a document.
C5_EveryParseResolves ==
  (parses # <<>>) ~> (parses # <<>> /\ parses[1].status = "resolved")

RECURSIVE RunAlone(_, _)
\* k more timer chunks of the parse c, with no other parse around
RunAlone(c, k) ==
  IF k = 0 THEN c ELSE RunAlone(processChunk(c, c.next, FALSE), k - 1)

\* the parse of vcdContent after its first k chunks, run alone
AloneAfter(vcdContent, k) ==
  RunAlone(processChunk(NewParse(vcdContent), 0, TRUE), k - 1)

\* C6: parses whose chunks interleave are each, at every chunk boundary and
\* at resolution, exactly where they would be when run alone.
C6_InterleavedParsesIsolated ==
  \A i \in 1..Len(parses) :
    parses[i] = AloneAfter(parses[i].vcdContent, parses[i].chunks)

\* two parses are in flight together, each past its second chunk, at
\* different current times
C6_Witness ==
  /\ Len(parses) = 2
  /\ parses[1].status = "timer" /\ parses[1].chunks >= 2
  /\ parses[2].status = "timer" /\ parses[2].chunks >= 2
  /\ parses[1].st.currentTime # parses[2].st.currentTime

\* time < t for a wave time t
Before(t, time) == ~IsNaN(t) /\ time.kind = "num" /\ t * time.den < time.num

\* C7: a hover at a time strictly between two consecutive wave entries of
\* the hovered signal reports the value of the earlier entry.
C7_HoverReportsHeldValue ==
  hoverInfo.shown =>
    \A s \in 1..Len(waveform.signals) :
      waveform.signals[s].name = hoverInfo.name =>
        LET wave == waveform.signals[s].wave
        IN  \A k \in 1..(Len(wave) - 1) :
              (Before(wave[k][1], cursorPosition)
                 /\ After(wave[k + 1][1], cursorPosition)) =>
                hoverInfo.value = wave[k][2]

\* value left-padded with '0' to width characters
LeftPad(value, width) ==
  [k \in 1..(width - Len(value)) |-> "0"] \o value

\* C8: a vector change for a declared signal whose bitstring is shorter
\* than the declared width is stored left-padded with '0' to the width, and
\* one of exactly the width unchanged. Stated of the last line processed.
C8_VectorLeftPadded ==
  \A i \in 1..Len(parses) :
    LET c     == parses[i]
        line  == Trim(c.lines[c.next])
        parts == SplitWS(Substring(line, 1))
        value == Part(parts, 0)
        id    == Part(parts, 1)
    IN  (/\ c.next >= 1
         /\ StartsWith(line, <<"b">>)
         /\ HasKey(c.st.signals, KeyOf(id))
         /\ ~IsNaN(Lookup(c.st.signals, id).width)
         /\ Len(value) <= Lookup(c.st.signals, id).width) =>
          LET sig == Lookup(c.st.signals, id)
          IN  /\ sig.wave # <<>>
              /\ sig.wave[Len(sig.wave)][2] = LeftPad(value, sig.width)

\* C9: in every returned document every wave value is a string of exactly
\* width characters, each one of 0, 1, x, z.
C9_ValuesWellFormed ==
  \A i \in 1..Len(parses) :
    parses[i].status = "resolved" =>
      \A k \in 1..Len(parses[i].doc.signals) :
        LET sig == parses[i].doc.signals[k]
        IN  \A j \in 1..Len(sig.wave) :
              /\ sig.wave[j][2] # Undefined
              /\ Len(sig.wave[j][2]) = sig.width
              /\ \A n \in 1..Len(sig.wave[j][2]) :
                   sig.wave[j][2][n] \in {"0", "1", "x", "z"}

\* a line `#<digits>`
IsTimeLine(l) ==
  Len(l) >= 2 /\ l[1] = "#" /\ \A n \in 2..Len(l) : IsDigit(l[n])

\* a line `0!` or `1!`
IsClkChange(l) == Len(l) = 2 /\ l[1] \in {"0", "1"} /\ l[2] = "!"

\* the timestamps of the time lines of body, in file order
RECURSIVE Timestamps(_)
Timestamps(body) ==
  IF body = <<>> THEN <<>>
  ELSE IF IsTimeLine(Head(body))
       THEN <<DigitsValue(Tail(Head(body)), 0)>> \o Timestamps(Tail(body))
       ELSE Timestamps(Tail(body))

\* `$var wire 1 ! clk $end`, then `#0`, then time lines at strictly
\* increasing timestamps and scalar changes of `!`
IsScalarDump(lines) ==
  /\ Len(lines) >= 2
  /\ lines[1] = Header1[1]
  /\ lines[2] = <<"#", "0">>
  /\ \A n \in 2..Len(lines) : IsTimeLine(lines[n]) \/ IsClkChange(lines[n])
  /\ LET ts == Timestamps(Tail(lines))
     IN  \A a, b \in 1..Len(ts) : a < b => ts[a] < ts[b]

\* the (timestamp, bit) pairs of body in file order, each change at the
\* timestamp of the most recent time line
RECURSIVE ExpectedWave(_, _)
ExpectedWave(body, now) ==
  IF body = <<>> THEN <<>>
  ELSE IF IsTimeLine(Head(body))
       THEN ExpectedWave(Tail(body), DigitsValue(Tail(Head(body)), 0))
       ELSE <<<<now, <<Head(body)[1]>>>>>> \o ExpectedWave(Tail(body), now)

\* C10: a width-1 signal and scalar changes at strictly increasing
\* timestamps from 0 give one signal of the declared name and width 1 whose
\* wave is the sequence of (timestamp, bit) pairs in file order.
C10_ScalarRoundTrip ==
  \A i \in 1..Len(parses) :
    (parses[i].status = "resolved" /\ IsScalarDump(parses[i].lines)) =>
      parses[i].doc.signals =
        <<[name |-> <<"c", "l", "k">>, width |-> 1,
           wave |-> ExpectedWave(Tail(parses[i].lines), 0),
           hierarchy |-> <<>>]>>

\* the round-trip example has resolved with the wave [[0,"0"],[5,"1"],[10,"0"]]
C10_Witness ==
  \E i \in 1..Len(parses) :
    /\ parses[i].status = "resolved"
    /\ parses[i].lines = RoundTrip
    /\ Len(parses[i].doc.signals) = 1
    /\ parses[i].doc.signals[1].wave =
         <<<<0, <<"0">>>>, <<5, <<"1">>>>, <<10, <<"0">>>>>>

\* the exponent the specification gives a magnitude: 0, 1, 2 for 1, 10, 100
\* and 0 for any other
MagnitudeTerm(m) ==
  IF m = <<"1", "0">> THEN 1 ELSE IF m = <<"1", "0", "0">> THEN 2 ELSE 0

\* the exponent the specification gives a unit: 0, -3, -6, -9, -12, -15 for
\* s, ms, us, ns, ps, fs and 0 for any other
UnitTerm(u) ==
  IF u = <<"m", "s">> THEN -3
  ELSE IF u = <<"u", "s">> THEN -6
  ELSE IF u = <<"n", "s">> THEN -9
  ELSE IF u = <<"p", "s">> THEN -12
  ELSE IF u = <<"f", "s">> THEN -15
  ELSE 0

\* a word: letters only, at least one
IsUnitWord(u) == u # <<>> /\ \A i \in 1..Len(u) : u[i] \in Letters

\* C11: parseTimescale of digits, optional white space and a unit word is
\* the magnitude's exponent plus the unit's, an unrecognized magnitude or
\* unit counting 0; of a string with no digits first, or with something
\* other than a word after them, it is 0.
C11_TimescaleExponent ==
  call.returned =>
    IF call.magnitude # <<>> /\ IsUnitWord(call.unit)
    THEN call.result = MagnitudeTerm(call.magnitude) + UnitTerm(call.unit)
    ELSE (call.magnitude = <<>> \/ call.unit # <<>>) => call.result = 0

\* the places of the character ch in name
PlacesOf(name, ch) == {n \in 1..Len(name) : name[n] = ch}

\* name is `base[hi:lo]`: one '[', one ':', a closing ']' at the end, and
\* digits on both sides of the ':'
IsRangedName(name) ==
  /\ name # Undefined
  /\ Cardinality(PlacesOf(name, "[")) = 1
  /\ Cardinality(PlacesOf(name, ":")) = 1
  /\ PlacesOf(name, "]") = {Len(name)}
  /\ LET ob == SetMin(PlacesOf(name, "["))
         co == SetMin(PlacesOf(name, ":"))
     IN  /\ ob + 1 < co /\ co + 1 < Len(name)
         /\ \A n \in ((ob + 1)..(co - 1)) \cup ((co + 1)..(Len(name) - 1)) :
              IsDigit(name[n])

RangedBase(name) == SubSeq(name, 1, SetMin(PlacesOf(name, "[")) - 1)

RangedHi(name) ==
  DigitsValue(SubSeq(name, SetMin(PlacesOf(name, "[")) + 1,
                     SetMin(PlacesOf(name, ":")) - 1), 0)

RangedLo(name) ==
  DigitsValue(SubSeq(name, SetMin(PlacesOf(name, ":")) + 1, Len(name) - 1), 0)

\* bit is the per-bit signal i of parent: width 1 and one entry per entry of
\* the parent's wave, at the same time, holding character hi - i of the
\* parent's value where the value has that character
IsBitOf(bit, parent, hi, i) ==
  /\ bit.width = 1
  /\ Len(bit.wave) = Len(parent.wave)
  /\ \A k \in 1..Len(parent.wave) :
       /\ bit.wave[k][1] = parent.wave[k][1]
       /\ (parent.wave[k][2] # Undefined /\ hi - i < Len(parent.wave[k][2])) =>
            bit.wave[k][2] = <<parent.wave[k][2][hi - i + 1]>>

\* C12: for every signal of a returned document with a width above 1 and a
\* name base[hi:lo], the document has for each i of lo..hi a signal named
\* base[i] that is the per-bit signal i of it.
C12_BusExpansion ==
  \A p \in 1..Len(parses) :
    parses[p].status = "resolved" =>
      \A s \in 1..Len(parses[p].doc.signals) :
        LET parent == parses[p].doc.signals[s]
        IN  (NumGt(parent.width, 1) /\ IsRangedName(parent.name)) =>
              \A i \in RangedLo(parent.name)..RangedHi(parent.name) :
                \E b \in 1..Len(parses[p].doc.signals) :
                  /\ parses[p].doc.signals[b].name =
                       BitName(RangedBase(parent.name), i)
                  /\ IsBitOf(parses[p].doc.signals[b], parent,
                             RangedHi(parent.name), i)

\* the largest timestamp of the `#<integer>` lines, 0 when there is none
LargestTimestamp(lines) ==
  SetMax({0} \cup {DigitsValue(Tail(Trim(lines[n])), 0) :
                     n \in {k \in 1..Len(lines) : IsTimeLine(Trim(lines[k]))}})

\* the `$timescale` lines that carry a token
TimescaleLines(lines) ==
  {n \in 1..Len(lines) : /\ StartsWith(Trim(lines[n]), kwTimescale)
                         /\ Len(SplitWS(Trim(lines[n]))) > 1}

\* the exponent resolved from the last `$timescale` line, 0 without one
LastExponent(lines) ==
  IF TimescaleLines(lines) = {} THEN 0
  ELSE parseTimescale(SplitWS(Trim(lines[SetMax(TimescaleLines(lines))]))[2])

\* ceil(t / 10^(-e)) for t >= 0
CeilOverPow(t, e) ==
  IF e >= 0 THEN t * Pow10(e)
  ELSE LET d == Pow10(0 - e)
       IN  IF t % d = 0 THEN t \div d ELSE (t \div d) + 1

\* C13: maxCycles of a returned document is ceil(maxTime / 10^(-exponent)),
\* maxTime the largest timestamp of the `#<integer>` lines (0 without one)
\* and exponent the one of the last `$timescale` line (0 without one).
C13_MaxCycles ==
  \A p \in 1..Len(parses) :
    parses[p].status = "resolved" =>
      parses[p].doc.maxCycles =
        CeilOverPow(LargestTimestamp(parses[p].lines), LastExponent(parses[p].lines))

\* C14: the timescale of a returned document is 10^exponent, exponent the
\* one resolved from the last `$timescale` line, and 10^0 without one.
\* Stated of the exponent of 10 the field is.
C14_TimescaleField ==
  \A p \in 1..Len(parses) :
    parses[p].status = "resolved" =>
      parses[p].doc.timescaleExp = LastExponent(parses[p].lines)

\* C15: no two signals of a returned document, declared or per-bit, have
\* the same name.
C15_UniqueNames ==
  \A p \in 1..Len(parses) :
    parses[p].status = "resolved" =>
      \A a, b \in 1..Len(parses[p].doc.signals) :
        a # b => parses[p].doc.signals[a].name # parses[p].doc.signals[b].name

\* C16: from zoom 1, after any zoom-in, zoom-out and slider changes the zoom
\* is within [0.1, 10].
C16_ZoomWithinBounds == ZoomMin <= zoom /\ zoom <= ZoomMax

\* a zoom-in has just been cut down to the upper bound
C16_Witness == lastZoom = "in" /\ zoom = ZoomMax

\* the App shows the document of a resolved parse
ShowsResolved ==
  /\ ~loading
  /\ \E p \in 1..Len(parses) :
       parses[p].status = "resolved" /\ waveform = parses[p].doc

\* C17: a document with no signals, or with a time range of zero, is shown
\* as the no-data state: the viewer does not render its canvas, whose
\* xScale divides by the range.
C17_EmptyResultIsNoData ==
  (ShowsResolved /\ (Len(waveform.signals) = 0 \/ timeRangeOf(waveform) = 0))
    => ~Mounted

\* floor((y - rulerHeight + offset.y) / rowHeight)
TrackIndex(y, off) == (y - timeScaleHeight + off.y) \div signalHeight

InOrderOnce(c) ==
  /\ c.next = MathMin(c.chunks * ChunkSize, Len(c.lines))
  /\ c.st = ProcessLines(ParserInit, c.lines, 0, c.next)
  /\ c.resolves <= 1
  /\ c.resolves = 1 <=> c.status = "resolved"
  /\ c.resolves = 1 => (c.next = Len(c.lines) /\ c.doc = Document(c.st))

\* C19: within a parse every line is processed once, in file order, a chunk
\* starting where the previous one ended, and the promise is resolved
\* exactly once, after the last line of the last chunk.
C19_InOrderResolvedOnce ==
  /\ [](\A p \in 1..Len(parses) : InOrderOnce(parses[p]))
  /\ (parses # <<>>) ~> (parses # <<>> /\ parses[1].resolves = 1)

\* C20: once the parse of the latest upload has resolved, the document the
\* App holds is that parse's, whatever earlier parses resolve afterwards.
C20_LaterUploadWins ==
  (parses # <<>> /\ parses[Len(parses)].status = "resolved") =>
    waveform = parses[Len(parses)].doc

\* the times a row is looked at: the times of its entries, the points
\* halfway between two entries, the visible start and the middle of the window
SampleTimes(signal, data, z, off) ==
  LET n == Len(signal.wave)
  IN  {RatOf(signal.wave[k][1]) : k \in 1..n}
        \cup {Reduce(signal.wave[k][1] + signal.wave[k + 1][1], 2) :
                k \in {j \in 1..(n - 1) : ~IsNaN(signal.wave[j][1])
                                            /\ ~IsNaN(signal.wave[j + 1][1])}}
        \cup {visibleStartTime(data, z, off),
              RatMul(RatAdd(visibleStartTime(data, z, off),
                            visibleEndTime(data, z, off)), Frac(1, 2))}

\* the index of the last wave entry with time <= t, 0 when there is none
EffectiveIndex(wave, t) ==
  LET held == {j \in 1..Len(wave) : RatLe(RatOf(wave[j][1]), t)}
  IN  IF held = {} THEN 0 ELSE SetMax(held)

\* the cells drawn over the pixel of time t
CellsAt(signal, data, z, off, t) ==
  {c \in drawSignal(signal, data, z, off) :
     /\ RatLe(c.x, PixelAt(data, t, z, off))
     /\ RatLt(PixelAt(data, t, z, off), c.nextX)}

\* t lies in the visible window
InWindow(data, z, off, t) ==
  /\ RatLe(visibleStartTime(data, z, off), t)
  /\ RatLt(t, visibleEndTime(data, z, off))

\* C21: at every time t of the visible window at which a drawn signal holds
\* a value, for every zoom and horizontal offset, a cell is drawn over the
\* pixel of t and every cell drawn there shows the value of the last wave
\* entry with time <= t, also when that entry lies before the visible start
C21_DrawnValueIsEffective ==
  (Mounted /\ FiniteScale(waveform)) =>
    \A r \in 1..Len(CanvasRows(waveform, expandedSignals)) :
      LET signal == CanvasRows(waveform, expandedSignals)[r].signal
      IN  \A t \in SampleTimes(signal, waveform, zoom, offset) :
            (InWindow(waveform, zoom, offset, t)
               /\ EffectiveIndex(signal.wave, t) > 0) =>
              /\ CellsAt(signal, waveform, zoom, offset, t) # {}
              /\ \A c \in CellsAt(signal, waveform, zoom, offset, t) :
                   c.value = signal.wave[EffectiveIndex(signal.wave, t)][2]

\* C21 without the horizontal scroll: every entry lies inside the window
C21_AtScrollZero == offset.x = 0 => C21_DrawnValueIsEffective

\* the value is a string with the character x or z at some position
ContainsXZ(value) ==
  value # Undefined /\ \E i \in 1..Len(value) : value[i] \in {"x", "z"}

\* the value is a string of the characters 0 and 1 only
OnlyBinary(value) ==
  value # Undefined /\ value # <<>> /\ \A i \in 1..Len(value) : value[i] \in {"0", "1"}

\* C22: every drawn segment whose value has an x or a z at any position is
\* drawn as the undefined box and not as a level line or a hexagon, and no
\* segment whose value has only 0 and 1 is drawn as the undefined box
C22_UndefinedBoxIffXZ ==
  (Mounted /\ FiniteScale(waveform)) =>
    \A r \in 1..Len(CanvasRows(waveform, expandedSignals)) :
      \A c \in drawSignal(CanvasRows(waveform, expandedSignals)[r].signal,
                          waveform, zoom, offset) :
        /\ ContainsXZ(c.value) => c.kind = "box"
        /\ OnlyBinary(c.value) => c.kind # "box"

\* C22 for the values of one character, and for the values of 0 and 1
C22_SingleCharacter ==
  (Mounted /\ FiniteScale(waveform)) =>
    \A r \in 1..Len(CanvasRows(waveform, expandedSignals)) :
      \A c \in drawSignal(CanvasRows(waveform, expandedSignals)[r].signal,
                          waveform, zoom, offset) :
        /\ (ContainsXZ(c.value) /\ Len(c.value) = 1) => c.kind = "box"
        /\ OnlyBinary(c.value) => c.kind # "box"

\* the hover record handleMouseMove sets for a pointer at height y names the
\* signal of the row drawn at that height
HoverNamesRow(data, expanded, off, y) ==
  LET signalIndex == SignalIndex(y, off)
      rows        == CanvasRows(data, expanded)
  IN  (signalIndex >= 0 /\ signalIndex < Len(data.signals)) =>
        /\ signalIndex < Len(rows)
        /\ rows[signalIndex + 1].signal.name = data.signals[signalIndex + 1].name

\* C23: in every layout state (any groups expanded or collapsed, any vertical
\* scroll) and for every pointer height, the signal the hover info names is
\* the signal of the row the renderer draws at that height
C23_HoverNamesDrawnRow ==
  Mounted =>
    \A py \in PointerYs : HoverNamesRow(waveform, expandedSignals, offset, py)

\* C23 for the documents in which every signal is a group of its own
C23_UngroupedOnly ==
  (Mounted /\ Len(groupedSignals(waveform)) = Len(waveform.signals)
     /\ \A k \in 1..Len(waveform.signals) :
          waveform.signals[k].name \notin {nameSW, nameLEDR}) =>
    \A py \in PointerYs : HoverNamesRow(waveform, expandedSignals, offset, py)

\* the rows drawn for the group of name k, top to bottom
RowsOf(data, expanded, k) ==
  SelectSeq(CanvasRows(data, expanded), LAMBDA row : row.group = k)

\* expandedSignals[groupName] is true; for a group that is neither SW nor
\* LEDR the record has no such property
GroupExpanded(expanded, k) ==
  (k = nameSW \/ k = nameLEDR) /\ IsExpanded(expanded, k)

\* the group g has one row while collapsed, and while expanded one row per
\* member in the order of the members
OneRowOrAll(data, expanded, g) ==
  LET rows == RowsOf(data, expanded, g.key)
  IN  IF GroupExpanded(expanded, g.key)
      THEN /\ Len(rows) = Len(g.signals)
           /\ \A i \in 1..Len(rows) : rows[i].signal = g.signals[i]
      ELSE Len(rows) = 1

\* C24: every group with more than one member takes exactly one row while
\* collapsed and one row per member, in declaration order, while expanded,
\* each row one row height below the previous one
C24_RowsPerGroup ==
  Mounted =>
    /\ \A k \in 1..Len(groupedSignals(waveform)) :
         Len(groupedSignals(waveform)[k].signals) > 1 =>
           OneRowOrAll(waveform, expandedSignals, groupedSignals(waveform)[k])
    /\ \A r \in 1..Len(CanvasRows(waveform, expandedSignals)) :
         RowY(r, offset) - RowY(r - 1, offset) = signalHeight

\* C24 for the groups that have a Select: those named SW or LEDR
C24_SelectGroups ==
  Mounted =>
    \A k \in 1..Len(groupedSignals(waveform)) :
      HasSelect(groupedSignals(waveform)[k]) =>
        OneRowOrAll(waveform, expandedSignals, groupedSignals(waveform)[k])

\* the number of members of the group named k
MembersOf(data, k) ==
  Len(groupedSignals(data)[KeyPos(groupedSignals(data), k)].signals)

\* C24, the toggle: a step that expands or collapses one group changes the
\* number of rows by the group's members less one and leaves the other group
\* as it was
C24_ToggleOneGroup ==
  [][/\ expandedSignals'.SW # expandedSignals.SW =>
          /\ expandedSignals'.LEDR = expandedSignals.LEDR
          /\ Len(CanvasRows(waveform, expandedSignals'))
               - Len(CanvasRows(waveform, expandedSignals))
               = IF expandedSignals'.SW THEN MembersOf(waveform, nameSW) - 1
                 ELSE 1 - MembersOf(waveform, nameSW)
     /\ expandedSignals'.LEDR # expandedSignals.LEDR =>
          /\ expandedSignals'.SW = expandedSignals.SW
          /\ Len(CanvasRows(waveform, expandedSignals'))
               - Len(CanvasRows(waveform, expandedSignals))
               = IF expandedSignals'.LEDR THEN MembersOf(waveform, nameLEDR) - 1
                 ELSE 1 - MembersOf(waveform, nameLEDR)]_vars

\* the signals of the document that the viewer splits into bits: those named
\* SW or LEDR
SplitBuses(data) ==
  {k \in 1..Len(data.signals) : data.signals[k].name \in {nameSW, nameLEDR}}

\* the group of the document's groups that holds the bits of signal k
GroupOfBus(data, k) ==
  groupedSignals(data)[KeyPos(groupedSignals(data), data.signals[k].name)]

\* C25: the one row of a collapsed group shows, at every sampled time, the
\* value of the bus whose bits the group holds: splitting a bus into bits and
\* collapsing the group gives back the bus's value string
C25_CollapseReproducesBus ==
  Mounted =>
    \A k \in SplitBuses(waveform) :
      DrawnCollapsed(GroupOfBus(waveform, k), expandedSignals) =>
        \A j \in 1..Len(waveform.signals[k].wave) :
          /\ j <= Len(CollapsedSignal(GroupOfBus(waveform, k)).wave)
          /\ CollapsedSignal(GroupOfBus(waveform, k)).wave[j]
               = waveform.signals[k].wave[j]

\* C25 for the row the viewer with buttons draws: the members' values joined
C25_JoinReproducesBus ==
  Mounted =>
    \A k \in SplitBuses(waveform) :
      DrawnCollapsed(GroupOfBus(waveform, k), expandedSignals) =>
        \A j \in 1..Len(waveform.signals[k].wave) :
          /\ j <= Len(groupedSignal(GroupOfBus(waveform, k)).wave)
          /\ groupedSignal(GroupOfBus(waveform, k)).wave[j]
               = waveform.signals[k].wave[j]

\* the wave times of the document
WaveTimes(data) ==
  {AllTimes(data.signals, 1)[j] : j \in 1..Len(AllTimes(data.signals, 1))}

\* the pixel a time is drawn at, resolved back by the pointer's transform, is
\* that time: for the wave times that fall on a whole pixel
PixelResolvesToTime(data, z, off) ==
  \A t \in WaveTimes(data) :
    LET p == PixelAt(data, RatOf(t), z, off)
    IN  (IsNum(p) /\ p.den = 1) =>
          RatEq(TimeAt(data, p.num - sidebarWidth, z, off), RatOf(t))

\* C26: with a time range that is not zero, at every zoom and horizontal
\* offset, the time the pointer's transform resolves for the pixel of a time
\* t is t, and after a pointer move to pixel px the cursor line is drawn at px
C26_CursorInvertsDrawing ==
  [][/\ \A px \in PointerXs :
          (handleMouseMove(px, 40) /\ FiniteScale(waveform)) =>
            RatEq(cursorX(waveform', cursorPosition', zoom', offset'), RatOf(px))
     /\ (Mounted' /\ FiniteScale(waveform')) =>
          PixelResolvesToTime(waveform', zoom', offset')]_vars

\* the cursor line is drawn at the pointer's pixel in a zoomed and scrolled
\* view, and a wave time off the window's start is resolved from its pixel
C26_Witness ==
  /\ Mounted
  /\ cursorPosition # Null
  /\ zoom # ZoomOne
  /\ offset.x > 0
  /\ \E px \in PointerXs :
       RatEq(cursorX(waveform, cursorPosition, zoom, offset), RatOf(px))
  /\ \E t \in WaveTimes(waveform) :
       /\ t # minTimeOf(waveform)
       /\ PixelAt(waveform, RatOf(t), zoom, offset).den = 1

RECURSIVE OpenScopes(_, _)
\* the names of the `$scope` lines among the first n lines that no `$upscope`
\* line among them has closed, outermost first
OpenScopes(lines, n) ==
  IF n = 0 THEN <<>>
  ELSE LET before == OpenScopes(lines, n - 1)
           line   == Trim(lines[n])
       IN  IF StartsWith(line, kwScope)
           THEN Append(before, Part(SplitWS(line), 2))
           ELSE IF StartsWith(line, kwUpscope) /\ before # <<>>
           THEN SubSeq(before, 1, Len(before) - 1)
           ELSE before

\* the `$var` lines among the first n lines that declare the id of key k
DeclLines(lines, n, k) ==
  {i \in 1..n : /\ StartsWith(Trim(lines[i]), kwVar)
                /\ KeyOf(Part(SplitWS(Trim(lines[i])), 3)) = k}

\* every signal declared so far in parse c holds the scopes open at its
\* latest `$var` line
HierarchyIsSnapshot(c) ==
  \A k \in 1..Len(c.st.signals) :
    LET decl == DeclLines(c.lines, c.next, c.st.signals[k].key)
    IN  /\ decl # {}
        /\ c.st.signals[k].hierarchy = OpenScopes(c.lines, SetMax(decl))

\* the signals of the resolved document that were declared by a `$var` line
\* carry that hierarchy
DocumentKeepsHierarchy(c) ==
  c.status = "resolved" =>
    \A k \in 1..Len(c.st.signals) :
      LET expanded == ExpandBuses(c.st.signals)
          p        == KeyPos(expanded, c.st.signals[k].key)
      IN  expanded[p].name = c.st.signals[k].name =>
            c.doc.signals[p].hierarchy = c.st.signals[k].hierarchy

\* C27: a signal's hierarchy is the scope stack at its `$var` line, the
\* names of the scopes opened and not yet closed, outermost first; an
\* `$upscope` on an empty stack changes nothing, and the lines after the
\* declaration leave the hierarchy as it was, up to the resolved document
C27_HierarchyIsScopeStack ==
  \A i \in 1..Len(parses) :
    /\ parses[i].st.currentScope = OpenScopes(parses[i].lines, parses[i].next)
    /\ HierarchyIsSnapshot(parses[i])
    /\ DocumentKeepsHierarchy(parses[i])

\* a resolved parse whose first line is an `$upscope`, with a signal declared
\* two scopes deep and the stack empty again at the end
C27_Witness ==
  \E i \in 1..Len(parses) :
    /\ parses[i].status = "resolved"
    /\ StartsWith(Trim(parses[i].lines[1]), kwUpscope)
    /\ parses[i].st.currentScope = <<>>
    /\ \E k \in 1..Len(parses[i].doc.signals) :
         Len(parses[i].doc.signals[k].hierarchy) = 2

\* C28: no event of the viewer (zoom, scroll, pointer move, pointer leave,
\* hover toggle, expand, collapse: the steps of a mounted viewer that are no
\* step of a parse) changes the document it was given, its signals, waves,
\* timescale and maxCycles, and no step at all writes to the document or the
\* signals of a parse that has resolved
C28_DocumentNeverMutated ==
  [][/\ (Mounted /\ parses' = parses) => waveform' = waveform
     /\ \A i \in 1..Len(parses) :
          parses[i].status = "resolved" =>
            /\ i <= Len(parses')
            /\ parses'[i].doc = parses[i].doc
            /\ parses'[i].st = parses[i].st]_vars

\* the document as the parse resolved it, after a zoom, a vertical scroll, a
\* pointer move, a hover toggle and an expansion
C28_Witness ==
  /\ Mounted
  /\ zoom # ZoomOne
  /\ offset.y > 0
  /\ cursorPosition # Null
  /\ hoverInfo # NoHover
  /\ ~showHoverInfo
  /\ expandedSignals.SW
  /\ waveform = parses[1].doc

\* the App renders the viewer: !loading && waveform
ViewerShown == ~loading /\ waveform # NoDocument

\* C29: in every state in which the parse of a started upload has not
\* resolved, also with two uploads under way, the loading indicator is shown
\* and the viewer is hidden
C29_LoadingWhileUnresolved ==
  (\E i \in 1..Len(parses) : parses[i].status # "resolved") =>
    (loading /\ ~ViewerShown)

\* C29 while a single upload is under way
C29_SingleUpload ==
  (Len(parses) = 1 /\ parses[1].status # "resolved") => (loading /\ ~ViewerShown)

\* the sidebar has one row for every row of the canvas, and the label of row
\* r names what is drawn in row r: the same group, and for a plain label the
\* same signal
SidebarMatchesCanvas(data, expanded) ==
  LET labels == renderSignalNames(data, expanded)
      rows   == CanvasRows(data, expanded)
  IN  /\ Len(labels) = Len(rows)
      /\ \A r \in 1..Len(labels) :
           r <= Len(rows) =>
             /\ labels[r].group = rows[r].group
             /\ ~labels[r].select => labels[r].name = rows[r].signal.name

\* C30: in every layout state, whatever groups are expanded, the sidebar
\* shows exactly one name row per row drawn on the canvas, in the same order
C30_SidebarRowPerCanvasRow ==
  Mounted => SidebarMatchesCanvas(waveform, expandedSignals)

\* C30 while no group is drawn with more than one row
C30_OneRowGroups ==
  (Mounted /\ \A k \in 1..Len(groupedSignals(waveform)) :
                Len(RowsOfGroup(groupedSignals(waveform)[k], expandedSignals)) = 1) =>
    SidebarMatchesCanvas(waveform, expandedSignals)

=============================================================================
